---- MODULE Spec2Model ----
(***************************************************************************)
(* Model of the affirmation service of app.py: the in-memory cache, its    *)
(* refresh cycle (refresh_cache), the feed extraction                      *)
(* (fetch_subreddit_top, _looks_funny) and the two endpoints /random and   *)
(* /healthz.                                                               *)
(*                                                                         *)
(* Text is modelled as a sequence of one-character strings, so that        *)
(* lower(), strip(), split() and the substring tests are computed.         *)
(*                                                                         *)
(* Scheduling: /random is an `async def` and runs on the event loop: it    *)
(* is atomic between awaits, and its only await that suspends is the       *)
(* asyncio.gather of refresh_cache.  /healthz is a plain `def`, which      *)
(* FastAPI runs in a worker thread: its reads of the module global         *)
(* interleave with the event loop.                                         *)
(***************************************************************************)
EXTENDS Integers, Sequences, FiniteSets, TLC

VARIABLES
    cache,      \* the module global _cache: [items, ts]
    now,        \* the wall clock, time.time()
    pc,         \* per /random request: "idle", "gather" (awaiting gather), "done"
    start,      \* per request: refresh_cache's local `now`
    results,    \* per request, per topic: the fetch task's state and outcome
    sent,       \* the HTTP response the latest step sent, if it sent one
    hpc,        \* the /healthz thread's position
    hcount,     \* /healthz: the evaluated "count"
    hseen,      \* /healthz: what _cache has held since the evaluation began (ghost)
    all_items,  \* the deduplication loop's input list
    di,         \* the deduplication loop's position in all_items
    dedup,      \* the deduplication loop's dict, as its values in insertion order
    arg,        \* the argument of a call of _looks_funny
    verdict,    \* what that call returned: "accept", "reject", or "none" before it
    children,   \* the children of a feed document given to fetch_subreddit_top
    cleaned,    \* the list fetch_subreddit_top returned for them
    epc,        \* "todo" before fetch_subreddit_top has run, "done" after, else "idle"
    order       \* the topics of one cycle in the order their fetches settled

vars == <<cache, now, pc, start, results, sent, hpc, hcount, hseen,
          all_items, di, dedup, arg, verdict, children, cleaned, epc, order>>

dedupVars == <<all_items, di, dedup>>

filterVars == <<arg, verdict>>

extractVars == <<children, cleaned, epc>>

\* the variables of the specifications of one function on its own
unitVars == <<dedupVars, filterVars, extractVars, order>>

----------------------------------------------------------------------------
(* Bounds of the model *)

\* how far the lengths of the texts range on either side of a limit
Pad == 2
\* longest text made of whitespace in every combination
MaxWs == 3
\* number of configured topics taken from SUBREDDITS
NumTopics == 2
\* number of clock steps
MaxTicks == 1
\* longest input list of the deduplication loop
MaxItems == 3

\* The /random requests that can be in progress at once: two slots, each
\* reused by the next request once its request has returned.
Callers == {"r1", "r2"}
Topics == 1..NumTopics

----------------------------------------------------------------------------
(* Text *)

UpperCase == <<"A", "B", "C", "D", "E", "F", "G", "H", "I", "J", "K", "L", "M",
               "N", "O", "P", "Q", "R", "S", "T", "U", "V", "W", "X", "Y", "Z">>
LowerCase == <<"a", "b", "c", "d", "e", "f", "g", "h", "i", "j", "k", "l", "m",
               "n", "o", "p", "q", "r", "s", "t", "u", "v", "w", "x", "y", "z">>

\* str.lower() on one character
LowerChar(c) ==
    IF \E i \in 1..Len(UpperCase) : UpperCase[i] = c
    THEN LowerCase[CHOOSE i \in 1..Len(UpperCase) : UpperCase[i] = c]
    ELSE c

\* str.lower()
lower(text) == [i \in 1..Len(text) |-> LowerChar(text[i])]

\* the characters str.strip() removes
IsSpace(c) == c \in {" ", "\n", "\t", "\r"}

RECURSIVE lstrip(_)
lstrip(text) ==
    IF text # <<>> /\ IsSpace(Head(text)) THEN lstrip(Tail(text)) ELSE text

RECURSIVE rstrip(_)
rstrip(text) ==
    IF text # <<>> /\ IsSpace(text[Len(text)])
    THEN rstrip(SubSeq(text, 1, Len(text) - 1))
    ELSE text

\* str.strip()
strip(text) == rstrip(lstrip(text))

\* text.split("\n", 1)[0]
RECURSIVE first_line(_)
first_line(text) ==
    IF text = <<>> \/ Head(text) = "\n" THEN <<>>
    ELSE <<Head(text)>> \o first_line(Tail(text))

\* b in text
Contains(text, b) ==
    \E i \in 1..(Len(text) - Len(b) + 1) : SubSeq(text, i, i + Len(b) - 1) = b

\* n times the character c
Fill(c, n) == [i \in 1..n |-> c]

\* text.endswith(ext)
endswith(text, ext) ==
    /\ Len(text) >= Len(ext)
    /\ SubSeq(text, Len(text) - Len(ext) + 1, Len(text)) = ext

----------------------------------------------------------------------------
(* Configuration *)

SUBREDDITS == <<"UnusualAffirmations", "PickupLines", "Showerthoughts",
                "Oneliners", "punny", "contagiouslaughter", "funny">>

CACHE_TTL == 60 * 60

MAX_LEN == 250

banned == { <<"s", "u", "i", "c", "i", "d", "e">>,
            <<"p", "o", "l", "i", "t", "i", "c", "s">>,
            <<"t", "r", "i", "g", "g", "e", "r">> }

MEDIA_EXT == { <<".", "j", "p", "g">>, <<".", "j", "p", "e", "g">>,
               <<".", "p", "n", "g">>, <<".", "g", "i", "f">>,
               <<".", "w", "e", "b", "p">>, <<".", "m", "p", "4">>,
               <<".", "g", "i", "f", "v">>, <<".", "w", "e", "b", "m">> }

MEDIA_HINTS == {"image", "hosted:video", "rich:video", "link"}

\* "https://www.reddit.com", the prefix of every permalink
BASE == <<"r", "e", "d", "d", "i", "t">>

Item(line, permalink, subreddit, ups) ==
    [line |-> line, permalink |-> permalink, subreddit |-> subreddit, ups |-> ups]

\* The nine fallback items; each line is cut to its leading words.
FALLBACK_AFFIRMATIONS == <<
    Item(<<"Y", "o", "u", " ", "a", "r", "e">>, BASE, "UnusualAffirmations", 1337),
    Item(<<"I", "f", " ", "y", "o", "u">>, BASE, "PickupLines", 9001),
    Item(<<"Y", "o", "u", "r">>, BASE, "funny", 5000),
    Item(<<"T", "h", "i", "s">>, BASE, "PickupLines", 1500),
    Item(<<"I", "f", " ", "e", "v", "e", "r", "y">>, BASE, "PickupLines", 2500),
    Item(<<"I", " ", "u", "s", "e", "d">>, BASE, "dadjokes", 1800),
    Item(<<"W", "h", "y">>, BASE, "dadjokes", 2200),
    Item(<<"W", "h", "a", "t">>, BASE, "punny", 1950),
    Item(<<"I", "'", "m">>, BASE, "dadjokes", 3100) >>

----------------------------------------------------------------------------
(* _looks_funny *)

\* the filter with the denylist matched against the text as written
_looks_funny_cased(text) ==
    IF text = <<>> THEN FALSE
    ELSE IF Len(text) > MAX_LEN THEN FALSE
    ELSE IF \E b \in banned : Contains(text, b) THEN FALSE
    ELSE TRUE

\* the filter with the emptiness test made on the stripped text
_looks_funny_strip(text) ==
    IF strip(text) = <<>> THEN FALSE
    ELSE IF Len(text) > MAX_LEN THEN FALSE
    ELSE IF \E b \in banned : Contains(lower(text), b) THEN FALSE
    ELSE TRUE

_looks_funny(text) ==
    IF text = <<>> THEN FALSE
    ELSE IF Len(text) > MAX_LEN THEN FALSE
    ELSE IF \E b \in banned : Contains(lower(text), b) THEN FALSE
    ELSE TRUE

----------------------------------------------------------------------------
(* fetch_subreddit_top: the loop over the posts of one feed document *)

\* A raw post record d. A missing or null field is the empty text, FALSE or 0,
\* which is what d.get(...) or "" and d.get("ups", 0) make of it.
Post(title, selftext, url_overridden_by_dest, url, post_hint, is_gallery, permalink, ups) ==
    [title |-> title, selftext |-> selftext,
     url_overridden_by_dest |-> url_overridden_by_dest, url |-> url,
     post_hint |-> post_hint, is_gallery |-> is_gallery,
     permalink |-> permalink, ups |-> ups]

\* the primary URL as written, without .lower()
url_cased(d) ==
    IF d.url_overridden_by_dest # <<>> THEN d.url_overridden_by_dest ELSE d.url

\* line 105: the primary URL, lowercased
url_lower(d) ==
    lower(IF d.url_overridden_by_dest # <<>> THEN d.url_overridden_by_dest ELSE d.url)

\* the condition of the `continue` at lines 106-111
is_media(d) ==
    \/ d.is_gallery
    \/ d.post_hint \in MEDIA_HINTS
    \/ \E ext \in MEDIA_EXT : endswith(url_lower(d), ext)

\* the candidate line taken of the texts as they come, without .strip()
extract_line_raw(d) ==
    IF _looks_funny(d.title) THEN d.title
    ELSE IF _looks_funny(d.selftext) THEN first_line(d.selftext)
    ELSE <<>>

\* the candidate line, lines 113-119
extract_line(d) ==
    LET title == strip(d.title)
        selftext == strip(d.selftext)
    IN IF _looks_funny(title) THEN title
       ELSE IF _looks_funny(selftext) THEN strip(first_line(selftext))
       ELSE <<>>

RECURSIVE clean_posts(_, _)
clean_posts(sub, posts) ==
    IF posts = <<>> THEN <<>>
    ELSE LET d == Head(posts)
             line == extract_line(d)
             rest == clean_posts(sub, Tail(posts))
         IN IF is_media(d) THEN rest
            ELSE IF line = <<>> THEN rest
            ELSE <<Item(line, BASE \o d.permalink, sub, d.ups)>> \o rest

\* the list fetch_subreddit_top returns for a feed document
fetch_subreddit_top(sub, posts) == clean_posts(sub, posts)

----------------------------------------------------------------------------
(* The feed: what one topic's fetch can settle with *)

NoText == <<>>

PostAb == Post(<<"A", "b">>, NoText, NoText, NoText, "", FALSE, <<"/", "1">>, 10)
\* a blank title over a body of two lines
PostC == Post(<<" ">>, <<" ", "c", " ", "\n", " ", "f">>, NoText, NoText, "", FALSE, <<"/", "2">>, 5)
PostaB == Post(<<" ", "a", "B">>, NoText, NoText, NoText, "self", FALSE, <<"/", "3">>, 50)
PostImg == Post(<<"d">>, NoText, NoText, <<"x", ".", "J", "P", "G">>, "", FALSE, <<"/", "4">>, 70)

\* a blank title over a blank body, and a title one character too long
PostBlank == Post(<<"\t">>, <<" ", "\n", " ">>, NoText, NoText, "", FALSE, <<"/", "5">>, 80)
PostLong == Post(Fill("x", MAX_LEN + 1), NoText, NoText, NoText, "", FALSE, <<"/", "6">>, 90)

\* the feed documents a 2xx answer can carry
Feeds == { <<PostAb, PostC, PostaB>>, <<PostImg, PostBlank, PostLong>> }

\* A fetch task: not created, awaiting its answer, returned a list, or raised.
TaskNone == [st |-> "none", items |-> <<>>]
TaskPending == [st |-> "pending", items |-> <<>>]
TaskOk(items) == [st |-> "ok", items |-> items]
TaskExc == [st |-> "exc", items |-> <<>>]

\* what fetch_subreddit_top returns for each topic and each feed document
Returns == [t \in Topics |-> { fetch_subreddit_top(SUBREDDITS[t], f) : f \in Feeds }]

\* the outcomes of fetch_subreddit_top(sub): a cleaned list, or an exception
\* (transport error, timeout, raise_for_status, malformed JSON)
Outcomes(t) == { TaskOk(items) : items \in Returns[t] } \cup { TaskExc }

----------------------------------------------------------------------------
(* refresh_cache *)

\* the early return taken on an empty snapshot instead of a non-empty one
is_fresh_empty(c, t) == t - c.ts < CACHE_TTL /\ c.items = <<>>

\* the condition of the early return at line 136
is_fresh(c, t) == t - c.ts < CACHE_TTL /\ c.items # <<>>

\* the loop over the results in the order in which the fetches settled, as
\* asyncio.as_completed would hand them over
RECURSIVE merge_results_completed(_, _)
merge_results_completed(rs, t) ==
    IF t > Len(order) THEN [raised |-> FALSE, all_items |-> <<>>]
    ELSE IF rs[order[t]].st = "exc" THEN [raised |-> TRUE, all_items |-> <<>>]
    ELSE LET rest == merge_results_completed(rs, t + 1)
         IN [raised |-> rest.raised,
             all_items |-> IF rest.raised THEN <<>>
                           ELSE rs[order[t]].items \o rest.all_items]

\* The loop of lines 141-147 over the gathered results, in topic order.
\* Line 145 names sys, which app.py never imports: the first result that is
\* an exception raises NameError out of refresh_cache.
RECURSIVE merge_results(_, _)
merge_results(rs, t) ==
    IF t > Len(rs) THEN [raised |-> FALSE, all_items |-> <<>>]
    ELSE IF rs[t].st = "exc" THEN [raised |-> TRUE, all_items |-> <<>>]
    ELSE LET rest == merge_results(rs, t + 1)
         IN [raised |-> rest.raised,
             all_items |-> IF rest.raised THEN <<>> ELSE rs[t].items \o rest.all_items]

\* the iteration with >= for >: the last of the items tied for the highest wins
dedup_step_last(d, it) ==
    LET key == lower(it.line)
        hit == { i \in 1..Len(d) : lower(d[i].line) = key }
    IN IF hit = {} THEN Append(d, it)
       ELSE LET i == CHOOSE i \in hit : TRUE
            IN IF it.ups >= d[i].ups THEN [d EXCEPT ![i] = it] ELSE d

\* the iteration whose replacement overwrites the dict's first entry instead
\* of the entry of the key
dedup_step_first(d, it) ==
    LET key == lower(it.line)
        hit == { i \in 1..Len(d) : lower(d[i].line) = key }
    IN IF hit = {} THEN Append(d, it)
       ELSE LET i == CHOOSE i \in hit : TRUE
            IN IF it.ups > d[i].ups THEN [d EXCEPT ![1] = it] ELSE d

\* the iteration with the line itself as the key, without .lower()
dedup_step_cased(d, it) ==
    LET hit == { i \in 1..Len(d) : d[i].line = it.line }
    IN IF hit = {} THEN Append(d, it)
       ELSE LET i == CHOOSE i \in hit : TRUE
            IN IF it.ups > d[i].ups THEN [d EXCEPT ![i] = it] ELSE d

\* one iteration of the loop of lines 149-152; d holds the dict's values in
\* insertion order, the key of d[i] being lower(d[i].line)
dedup_step(d, it) ==
    LET key == lower(it.line)
        hit == { i \in 1..Len(d) : lower(d[i].line) = key }
    IN IF hit = {} THEN Append(d, it)
       ELSE LET i == CHOOSE i \in hit : TRUE
            IN IF it.ups > d[i].ups THEN [d EXCEPT ![i] = it] ELSE d

RECURSIVE dedup_from(_, _)
dedup_from(d, items) ==
    IF items = <<>> THEN d ELSE dedup_from(dedup_step(d, Head(items)), Tail(items))

\* list(dedup.values()) after the loop of lines 148-152
dedup_values(items) == dedup_from(<<>>, items)

\* commit without the guard of line 156: the snapshot is always overwritten
commit_always(c, new_items, t) == [items |-> new_items, ts |-> t]

\* lines 155-161: the value of _cache after the commit
commit(c, new_items, t) ==
    IF new_items # <<>> THEN [items |-> new_items, ts |-> t]
    ELSE [c EXCEPT !.ts = t]

----------------------------------------------------------------------------
(* The clock *)

\* time.time() is far past CACHE_TTL at process start, so that ts = 0 is stale
StartTime == CACHE_TTL
TickStep == CACHE_TTL \div 2
MaxTime == StartTime + MaxTicks * TickStep

----------------------------------------------------------------------------
(* Endpoints *)

NoResponse == [path |-> "", status |-> 0, body |-> <<>>]

\* lines 173-177: the response of /random given the items it read
Responses(items) ==
    IF items = <<>> THEN { [path |-> "/random", status |-> 503, body |-> <<>>] }
    ELSE { [path |-> "/random", status |-> 200, body |-> <<items[i]>>] : i \in 1..Len(items) }

\* an exception that leaves the handler is answered with 500
InternalError == [path |-> "/random", status |-> 500, body |-> <<>>]

\* line 182: the response of /healthz
Health(count, age_sec) ==
    [path |-> "/healthz", status |-> 200, body |-> <<count, age_sec>>]

\* what /healthz tells of a value of _cache
Stat(c) == <<Len(c.items), c.ts>>

Init ==
    /\ cache = [items |-> FALLBACK_AFFIRMATIONS, ts |-> 0]
    /\ now = StartTime
    /\ pc = [p \in Callers |-> "idle"]
    /\ start = [p \in Callers |-> 0]
    /\ results = [p \in Callers |-> [t \in Topics |-> TaskNone]]
    /\ sent = NoResponse
    /\ hpc = "idle"
    /\ hcount = 0
    /\ hseen = {}
    /\ all_items = <<>>
    /\ di = 0
    /\ dedup = <<>>
    /\ arg = <<>>
    /\ verdict = "none"
    /\ children = <<>>
    /\ cleaned = <<>>
    /\ epc = "idle"
    /\ order = <<>>

healthVars == <<hpc, hcount, hseen>>

\* time passes
Tick ==
    /\ now < MaxTime
    /\ now' = now + TickStep
    /\ sent' = NoResponse
    /\ UNCHANGED <<cache, pc, start, results, healthVars, unitVars>>

\* GET /random up to its first suspension: refresh_cache returns at once on a
\* fresh cache and the handler answers; otherwise the fetch tasks are created
\* and the handler awaits asyncio.gather.
random_affirmation(p) ==
    /\ pc[p] = "idle"
    /\ IF is_fresh(cache, now)
       THEN /\ \E r \in Responses(cache.items) : sent' = r
            /\ UNCHANGED <<pc, start, results>>
       ELSE /\ pc' = [pc EXCEPT ![p] = "gather"]
            /\ start' = [start EXCEPT ![p] = now]
            /\ results' = [results EXCEPT ![p] = [t \in Topics |-> TaskPending]]
            /\ sent' = NoResponse
    /\ UNCHANGED <<cache, now, healthVars, unitVars>>

\* one fetch task of request p settles
fetch_settle(p, t) ==
    /\ pc[p] = "gather"
    /\ results[p][t].st = "pending"
    /\ \E o \in Outcomes(t) : results' = [results EXCEPT ![p][t] = o]
    /\ sent' = NoResponse
    /\ UNCHANGED <<cache, now, pc, start, healthVars, unitVars>>

\* a refresh_cache that goes on as soon as one task has settled, the tasks
\* still pending counting for nothing
refresh_cache_resume_first(p) ==
    /\ pc[p] = "gather"
    /\ \E t \in Topics : results[p][t].st \in {"ok", "exc"}
    /\ pc' = [pc EXCEPT ![p] = "idle"]
    /\ start' = [start EXCEPT ![p] = 0]
    /\ results' = [results EXCEPT ![p] = [t \in Topics |-> TaskNone]]
    /\ LET m == merge_results(results[p], 1)
       IN IF m.raised
          THEN /\ sent' = InternalError
               /\ UNCHANGED <<cache, hseen>>
          ELSE /\ cache' = commit(cache, dedup_values(m.all_items), start[p])
               /\ hseen' = IF hpc = "idle" THEN hseen ELSE hseen \cup {Stat(cache')}
               /\ \E r \in Responses(cache'.items) : sent' = r
    /\ UNCHANGED <<now, hpc, hcount, unitVars>>

\* asyncio.gather returns once every task has settled; the rest of
\* refresh_cache and of the handler runs without suspension, and the
\* request's locals are gone when it returns
refresh_cache_resume(p) ==
    /\ pc[p] = "gather"
    /\ \A t \in Topics : results[p][t].st \in {"ok", "exc"}
    /\ pc' = [pc EXCEPT ![p] = "idle"]
    /\ start' = [start EXCEPT ![p] = 0]
    /\ results' = [results EXCEPT ![p] = [t \in Topics |-> TaskNone]]
    /\ LET m == merge_results(results[p], 1)
       IN IF m.raised
          THEN /\ sent' = InternalError
               /\ UNCHANGED <<cache, hseen>>
          ELSE /\ cache' = commit(cache, dedup_values(m.all_items), start[p])
               /\ hseen' = IF hpc = "idle" THEN hseen ELSE hseen \cup {Stat(cache')}
               /\ \E r \in Responses(cache'.items) : sent' = r
    /\ UNCHANGED <<now, hpc, hcount, unitVars>>

\* GET /healthz, in its worker thread: "count" is evaluated first
healthz_count ==
    /\ hpc = "idle"
    /\ hpc' = "count"
    /\ hcount' = Len(cache.items)
    /\ hseen' = {Stat(cache)}
    /\ sent' = NoResponse
    /\ UNCHANGED <<cache, now, pc, start, results, unitVars>>

\* a /healthz that stamps the cache as refresh_cache does
healthz_age_stamp ==
    /\ hpc = "count"
    /\ hpc' = "idle"
    /\ hcount' = 0
    /\ hseen' = {}
    /\ sent' = Health(hcount, now - cache.ts)
    /\ cache' = [cache EXCEPT !.ts = now]
    /\ UNCHANGED <<now, pc, start, results, unitVars>>

\* then "age_sec", and the response is complete
healthz_age ==
    /\ hpc = "count"
    /\ hpc' = "idle"
    /\ hcount' = 0
    /\ hseen' = {}
    /\ sent' = Health(hcount, now - cache.ts)
    /\ UNCHANGED <<cache, now, pc, start, results, unitVars>>

Next ==
    \/ Tick
    \/ \E p \in Callers : random_affirmation(p)
    \/ \E p \in Callers, t \in Topics : fetch_settle(p, t)
    \/ \E p \in Callers : refresh_cache_resume(p)
    \/ healthz_count
    \/ healthz_age

Spec == Init /\ [][Next]_vars

----------------------------------------------------------------------------
(* The deduplication loop of lines 148-152 on its own, over every input list *)

PoolItem(line, sub, ups) == Item(line, BASE, SUBREDDITS[sub], ups)

\* items whose lines differ by case only, with equal and with different
\* popularity, and one item of another line
DedupPool == { PoolItem(<<"A", "b">>, 1, 10), PoolItem(<<"a", "B">>, 1, 50),
               PoolItem(<<"a", "b">>, 2, 10), PoolItem(<<"A", "B">>, 2, 50),
               PoolItem(<<"A", "b">>, 2, 10), PoolItem(<<"c">>, 1, 5) }

RECURSIVE SeqsUpTo(_, _)
SeqsUpTo(S, n) ==
    IF n = 0 THEN { <<>> }
    ELSE LET shorter == SeqsUpTo(S, n - 1)
         IN shorter \cup { Append(q, x) : q \in shorter, x \in S }

InitDedup ==
    /\ cache = [items |-> FALLBACK_AFFIRMATIONS, ts |-> 0]
    /\ now = StartTime
    /\ pc = [p \in Callers |-> "idle"]
    /\ start = [p \in Callers |-> 0]
    /\ results = [p \in Callers |-> [t \in Topics |-> TaskNone]]
    /\ sent = NoResponse
    /\ hpc = "idle"
    /\ hcount = 0
    /\ hseen = {}
    /\ all_items \in SeqsUpTo(DedupPool, MaxItems)
    /\ di = 0
    /\ dedup = <<>>
    /\ arg = <<>>
    /\ verdict = "none"
    /\ children = <<>>
    /\ cleaned = <<>>
    /\ epc = "idle"
    /\ order = <<>>

\* for it in all_items: one iteration
dedup_loop ==
    /\ di < Len(all_items)
    /\ di' = di + 1
    /\ dedup' = dedup_step(dedup, all_items[di + 1])
    /\ UNCHANGED <<cache, now, pc, start, results, sent, healthVars, all_items>>
    /\ UNCHANGED <<filterVars, extractVars, order>>

NextDedup == dedup_loop

SpecDedup == InitDedup /\ [][NextDedup]_vars

----------------------------------------------------------------------------
(* _looks_funny on its own, over a family of texts *)

UpperChar(c) ==
    IF \E i \in 1..Len(LowerCase) : LowerCase[i] = c
    THEN UpperCase[CHOOSE i \in 1..Len(LowerCase) : LowerCase[i] = c]
    ELSE c

\* a word in every combination of upper and lower case letters
Casings(word) ==
    { [i \in 1..Len(word) |-> IF m[i] THEN UpperChar(word[i]) ELSE word[i]] :
          m \in [1..Len(word) -> BOOLEAN] }

Spaces == {" ", "\n", "\t", "\r"}

\* the texts of at most n whitespace characters
Blanks(n) == UNION { [1..k -> Spaces] : k \in 0..n }

\* lengths at zero and around the limit of line 84
Lengths == (0..Pad) \cup ((MAX_LEN - Pad)..(MAX_LEN + Pad))

\* what stands before and after a denylisted term
Margins == { <<>>, <<"x">>, <<"x", " ">> }

FilterTexts ==
    { Fill("x", n) : n \in Lengths }
    \cup Blanks(MaxWs)
    \cup { Fill(" ", n) : n \in Lengths }
    \cup { l \o w \o r : l \in Margins, r \in Margins,
                         w \in UNION { Casings(b) : b \in banned } }
    \cup { Fill("x", n - Len(b)) \o [i \in 1..Len(b) |-> UpperChar(b[i])] :
              n \in (MAX_LEN - Pad)..(MAX_LEN + Pad), b \in banned }
    \cup { SubSeq(b, 1, Len(b) - 1) \o <<" ">> \o SubSeq(b, Len(b), Len(b)) : b \in banned }

InitFilter ==
    /\ cache = [items |-> FALLBACK_AFFIRMATIONS, ts |-> 0]
    /\ now = StartTime
    /\ pc = [p \in Callers |-> "idle"]
    /\ start = [p \in Callers |-> 0]
    /\ results = [p \in Callers |-> [t \in Topics |-> TaskNone]]
    /\ sent = NoResponse
    /\ hpc = "idle"
    /\ hcount = 0
    /\ hseen = {}
    /\ all_items = <<>>
    /\ di = 0
    /\ dedup = <<>>
    /\ arg \in FilterTexts
    /\ verdict = "none"
    /\ children = <<>>
    /\ cleaned = <<>>
    /\ epc = "idle"
    /\ order = <<>>

\* the call _looks_funny(arg)
looks_funny_call ==
    /\ verdict = "none"
    /\ verdict' = IF _looks_funny(arg) THEN "accept" ELSE "reject"
    /\ UNCHANGED <<cache, now, pc, start, results, sent, healthVars>>
    /\ UNCHANGED <<dedupVars, arg, extractVars, order>>

NextFilter == looks_funny_call

SpecFilter == InitFilter /\ [][NextFilter]_vars

----------------------------------------------------------------------------
(* fetch_subreddit_top on its own, over a family of feed documents *)

Upper(word) == [i \in 1..Len(word) |-> UpperChar(word[i])]

\* URLs that end in a media extension, in lower, upper and mixed case
MediaUrls ==
    { <<"x">> \o e : e \in UNION { Casings(ext) : ext \in MEDIA_EXT } }

\* URLs that do not: none, another extension, an extension followed by a
\* query, an extension cut short, an extension without its dot
OtherUrls ==
    { <<>>, <<"x", ".", "h", "t", "m">>, <<"x", ".", "j", "p", "g", "?", "w">>,
      <<"x", ".", "j", "p">>, <<"j", "p", "g">> }

\* the two URL fields of a post: url_overridden_by_dest and url
UrlPairs ==
    { <<NoText, u>> : u \in MediaUrls \cup OtherUrls }
    \cup { <<u, NoText>> : u \in MediaUrls }
    \cup { <<u, <<"x", ".", "h", "t", "m">>>> : u \in MediaUrls }
    \cup { <<<<"x", ".", "h", "t", "m">>, u>> : u \in MediaUrls }

Titles ==
    { NoText, <<"A", "b">>, <<" ">>, <<" ", "c", " ", "\n">>,
      Fill("x", MAX_LEN + 1), Fill("x", MAX_LEN) \o <<" ">>,
      <<"T", "r", "i", "g", "g", "e", "r">> }

Bodies ==
    { NoText, <<"e", "\n", "f">>, <<" ", "e", " ", "\n", " ", "f">>,
      <<"e", "\r", "\n", "f">>, <<"\n", "\n", "e">>, <<" ", "\n", " ">>,
      <<"e", "\n">> \o Upper(<<"t", "r", "i", "g", "g", "e", "r">>),
      <<"e", "\n">> \o Fill("x", MAX_LEN),
      <<"p", "o", "l", "i", "t", "i", "c", "s", "\n", "e">>,
      Fill("x", MAX_LEN + 1) }

\* the posts that differ in their URLs, and those that differ in their texts
ExtractPosts ==
    { Post(t, b, u[1], u[2], "", FALSE, <<"/", "9">>, 7) :
          t \in {NoText, <<"A", "b">>}, b \in {NoText, <<"e", "\n", "f">>}, u \in UrlPairs }
    \cup { Post(t, b, NoText, NoText, h, g, <<"/", "9">>, 7) :
              t \in Titles, b \in Bodies, h \in {"", "self", "image"}, g \in BOOLEAN }

InitExtract ==
    /\ cache = [items |-> FALLBACK_AFFIRMATIONS, ts |-> 0]
    /\ now = StartTime
    /\ pc = [p \in Callers |-> "idle"]
    /\ start = [p \in Callers |-> 0]
    /\ results = [p \in Callers |-> [t \in Topics |-> TaskNone]]
    /\ sent = NoResponse
    /\ hpc = "idle"
    /\ hcount = 0
    /\ hseen = {}
    /\ all_items = <<>>
    /\ di = 0
    /\ dedup = <<>>
    /\ arg = <<>>
    /\ verdict = "none"
    /\ children \in { <<d>> : d \in ExtractPosts } \cup { <<PostC, d>> : d \in ExtractPosts }
    /\ cleaned = <<>>
    /\ epc = "todo"
    /\ order = <<>>

\* the loop of fetch_subreddit_top over the children of a 2xx answer
fetch_subreddit_top_call ==
    /\ epc = "todo"
    /\ epc' = "done"
    /\ cleaned' = fetch_subreddit_top(SUBREDDITS[1], children)
    /\ UNCHANGED <<cache, now, pc, start, results, sent, healthVars>>
    /\ UNCHANGED <<dedupVars, filterVars, children, order>>

NextExtract == fetch_subreddit_top_call

SpecExtract == InitExtract /\ [][NextExtract]_vars

----------------------------------------------------------------------------
(* One refresh cycle on its own, the order in which its fetches settle      *)
(* being recorded; what the fetches returned is kept once the cycle is over *)

\* one fetch task of the cycle settles
cycle_settle(t) ==
    /\ pc["r1"] = "gather"
    /\ results["r1"][t].st = "pending"
    /\ \E o \in Outcomes(t) : results' = [results EXCEPT !["r1"][t] = o]
    /\ order' = Append(order, t)
    /\ sent' = NoResponse
    /\ UNCHANGED <<cache, now, pc, start, healthVars>>
    /\ UNCHANGED <<dedupVars, filterVars, extractVars>>

\* asyncio.gather returns, and refresh_cache and the handler run to their end
cycle_resume ==
    /\ pc["r1"] = "gather"
    /\ \A t \in Topics : results["r1"][t].st \in {"ok", "exc"}
    /\ pc' = [pc EXCEPT !["r1"] = "done"]
    /\ LET m == merge_results(results["r1"], 1)
       IN IF m.raised
          THEN /\ sent' = InternalError
               /\ UNCHANGED cache
          ELSE /\ cache' = commit(cache, dedup_values(m.all_items), start["r1"])
               /\ \E r \in Responses(cache'.items) : sent' = r
    /\ UNCHANGED <<now, start, results, healthVars, unitVars>>

NextMerge ==
    \/ Tick
    \/ random_affirmation("r1")
    \/ \E t \in Topics : cycle_settle(t)
    \/ cycle_resume

SpecMerge == Init /\ [][NextMerge]_vars

----------------------------------------------------------------------------
(* Properties *)

\* the requests that await their fetches
InFlight == { p \in Callers : pc[p] = "gather" }

\* request p returns from refresh_cache's gather in this step
Resumes(p) == pc[p] = "gather" /\ pc'[p] = "idle"

\* the items the successful topics of a cycle yielded, in topic order
RECURSIVE ok_items(_, _)
ok_items(rs, t) ==
    IF t > Len(rs) THEN <<>>
    ELSE (IF rs[t].st = "ok" THEN rs[t].items ELSE <<>>) \o ok_items(rs, t + 1)

Yielded(p) == ok_items(results[p], 1)

Range(q) == { q[i] : i \in 1..Len(q) }

\* out holds exactly one item for each line of inp, case ignored, and no other
OnePerLine(inp, out) ==
    /\ Range(out) \subseteq Range(inp)
    /\ \A x \in Range(inp) :
           Cardinality({ k \in 1..Len(out) : lower(out[k].line) = lower(x.line) }) = 1

\* sent is a /random answer carrying an item of items
AnswersFrom(r, items) ==
    /\ r.path = "/random"
    /\ r.status = 200
    /\ \E i \in 1..Len(items) : r.body = <<items[i]>>

\* C1: the snapshot's items are never empty, whatever the fetches return and
\* however /random and /healthz interleave, and /random never answers 503.
C1_NeverEmpty ==
    /\ cache.items # <<>>
    /\ sent.status # 503

\* C1 witness: a refresh whose result was empty has committed (the fallback
\* items are kept, the timestamp is stamped) and /random has answered an item.
C1_Witness ==
    /\ cache.items = FALLBACK_AFFIRMATIONS
    /\ cache.ts > 0
    /\ AnswersFrom(sent, cache.items)

\* C2 (as claimed): a cycle in which some topics fail and the others succeed
\* completes without throwing: /random answers 200 with an item, and when the
\* successful topics yielded items the snapshot holds exactly their
\* deduplicated merge.
C2_PartialFailureAbsorbed ==
    [][\A p \in Callers :
         ( /\ Resumes(p)
           /\ \E t \in Topics : results[p][t].st = "exc"
           /\ \E t \in Topics : results[p][t].st = "ok" )
         => /\ AnswersFrom(sent', cache'.items)
            /\ Yielded(p) # <<>> => OnePerLine(Yielded(p), cache'.items)]_vars

\* C3 (as claimed): a cycle in which every topic fails leaves the items as
\* they were and advances refreshedAt to the cycle's now.
C3_AllFailStamps ==
    [][\A p \in Callers :
         (Resumes(p) /\ \A t \in Topics : results[p][t].st = "exc")
         => /\ cache'.items = cache.items
            /\ cache'.ts = start[p]]_vars

\* the state at process start
Cold == cache.items = FALLBACK_AFFIRMATIONS /\ cache.ts = 0

\* C4 (as claimed): from cold start a /random call makes one refresh attempt,
\* one fetch per topic, and answers a valid item of the snapshot, also when
\* the refresh fails.
C4_ColdStartAnswers ==
    [][\A p \in Callers :
         /\ (Cold /\ pc[p] = "idle" /\ pc'[p] = "gather")
            => \A t \in Topics : results'[p][t] = TaskPending
         /\ (Cold /\ Resumes(p)) => AnswersFrom(sent', cache'.items)]_vars

\* C5: a /random call made while now - ts < CACHE_TTL on a non-empty snapshot
\* is a no-op for the cache: it creates no fetch task, starts no refresh,
\* leaves items and ts as they are, and answers at once from the snapshot.
C5_FreshIsNoOp ==
    [][\A p \in Callers :
         ( /\ now - cache.ts < CACHE_TTL
           /\ cache.items # <<>>
           /\ random_affirmation(p) )
         => /\ cache' = cache
            /\ pc' = pc
            /\ \A t \in Topics : results'[p][t] = TaskNone
            /\ AnswersFrom(sent', cache.items)]_vars

\* C5 witness: after a refresh that replaced the fallback items, within the
\* TTL window and at a later time, /random has answered and nothing is in flight.
C5_Witness ==
    /\ cache.items # FALLBACK_AFFIRMATIONS
    /\ cache.ts < now
    /\ now - cache.ts < CACHE_TTL
    /\ InFlight = {}
    /\ AnswersFrom(sent, cache.items)

\* C6 (as claimed): at most one refresh attempt is in flight at any time.
C6_SingleFlight == Cardinality(InFlight) <= 1

\* C7 (as claimed): the count and the timestamp a /healthz answer is computed
\* from belong to one and the same value the cache held during the request.
C7_NoTornRead ==
    [][(hpc = "count" /\ hpc' = "idle") => <<hcount, cache.ts>> \in hseen]_vars

\* C8: /healthz is read-only: its steps create no fetch task, start no
\* refresh and leave items and ts as they are, also on a stale snapshot.
C8_HealthReadOnly ==
    [][(hpc' # hpc) => UNCHANGED <<cache, pc, start, results>>]_vars

\* C8 witness: /healthz has answered on a stale snapshot and no refresh runs.
C8_Witness ==
    /\ sent.path = "/healthz"
    /\ now - cache.ts >= CACHE_TTL
    /\ InFlight = {}

\* C9 (as claimed): a cycle in which some topic yields an item replaces the
\* snapshot wholesale: the items are exactly the deduplicated merge of what
\* the cycle yielded, they are not empty, and ts is the cycle's now.
C9_ReplaceWholesale ==
    [][\A p \in Callers :
         (Resumes(p) /\ Yielded(p) # <<>>)
         => /\ cache'.items # <<>>
            /\ OnePerLine(Yielded(p), cache'.items)
            /\ cache'.ts = start[p]]_vars

\* the positions of inp whose line equals that of inp[i], case ignored
Group(inp, i) == { j \in 1..Len(inp) : lower(inp[j].line) = lower(inp[i].line) }

\* the position of the winner of inp[i]'s group: the first of those with the
\* highest popularity
Winner(inp, i) ==
    LET g == Group(inp, i)
        best == { j \in g : \A k \in g : inp[j].ups >= inp[k].ups }
    IN CHOOSE j \in best : \A k \in best : j <= k

\* C10: once the loop has run over the input, the dict holds for each group
\* of lines equal under case-insensitive comparison exactly one item: the
\* first of the group's items of highest popularity, in its own casing.
C10_DedupKeepsBest ==
    di = Len(all_items) =>
        /\ \A i \in 1..Len(all_items) :
               LET held == { k \in 1..Len(dedup) :
                               lower(dedup[k].line) = lower(all_items[i].line) }
               IN /\ Cardinality(held) = 1
                  /\ \A k \in held : dedup[k] = all_items[Winner(all_items, i)]
        /\ \A k \in 1..Len(dedup) : dedup[k] \in Range(all_items)

\* C10 witness: the loop has finished an input of three items of one group,
\* the winner being neither the first nor the last of them.
C10_Witness ==
    /\ di = Len(all_items)
    /\ Len(all_items) = 3
    /\ Len(dedup) = 1
    /\ dedup[1] = all_items[2]
    /\ all_items[3].ups = all_items[2].ups
    /\ all_items[3] # all_items[2]

\* C11: deduplication is idempotent: running the loop again over the list it
\* produced yields the same set of items as the first run.
C11_DedupIdempotent ==
    di = Len(all_items) => Range(dedup_values(dedup)) = Range(dedup)

\* C11 witness: the first run has dropped an item and replaced another, and
\* what it produced holds more than one item.
C11_Witness ==
    /\ di = Len(all_items)
    /\ Len(all_items) = 3
    /\ Len(dedup) = 2
    /\ \E k \in 1..2 : dedup[k] = all_items[3] /\ dedup[k].ups > all_items[k].ups

\* text holds a denylisted term, in whatever letter case
HasBanned(t) ==
    \E b \in banned : \E i \in 1..(Len(t) - Len(b) + 1) :
        \A k \in 1..Len(b) : LowerChar(t[i + k - 1]) = b[k]

\* C12: _looks_funny rejects every text longer than 250 characters and every
\* text that holds a denylisted term in any letter case, and it accepts a text
\* of exactly 250 characters that holds no denylisted term.
C12_FilterLimits ==
    verdict # "none" =>
        /\ Len(arg) > 250 => verdict = "reject"
        /\ HasBanned(arg) => verdict = "reject"
        /\ (Len(arg) = 250 /\ ~HasBanned(arg)) => verdict = "accept"

\* C12 witness: a text of exactly 250 characters has been accepted.
C12_Witness ==
    /\ verdict = "accept"
    /\ Len(arg) = 250

\* C13 (as claimed): _looks_funny rejects the empty text and every text made
\* of whitespace only, of any length.
C13_RejectsBlank ==
    (verdict # "none" /\ \A i \in 1..Len(arg) : IsSpace(arg[i]))
        => verdict = "reject"

\* C13 (amended): of the texts made of whitespace only, _looks_funny rejects
\* the empty text and those longer than 250 characters, and accepts the
\* others: the test of line 82 is for the empty text, and it is the callers
\* that strip a text before they pass it.
C13_RejectsEmptyOnly ==
    (verdict # "none" /\ \A i \in 1..Len(arg) : IsSpace(arg[i]))
        => (verdict = "reject" <=> (arg = <<>> \/ Len(arg) > 250))

\* C13 witness: a text of several whitespace characters has been accepted.
C13_Witness ==
    /\ verdict = "accept"
    /\ Len(arg) > 1
    /\ \A i \in 1..Len(arg) : IsSpace(arg[i])

\* the primary URL of d ends in a media extension, in whatever letter case
PrimaryIsMedia(d) ==
    LET u == IF d.url_overridden_by_dest # <<>> THEN d.url_overridden_by_dest ELSE d.url
    IN \E ext \in MEDIA_EXT :
           /\ Len(u) >= Len(ext)
           /\ \A k \in 1..Len(ext) : LowerChar(u[Len(u) - Len(ext) + k]) = ext[k]

\* the items of the result that were made of post d
ItemsOf(d) == { k \in 1..Len(cleaned) : cleaned[k].permalink = BASE \o d.permalink }

\* C14: a post whose primary URL ends in a media extension, in any letter
\* case, is never in the list fetch_subreddit_top returns, also when its title
\* would pass the filter.
C14_MediaUrlRejected ==
    epc = "done" =>
        \A i \in 1..Len(children) :
            PrimaryIsMedia(children[i]) => ItemsOf(children[i]) = {}

\* C14 witness: of two posts whose titles pass the filter, the one with a
\* media URL not written in lower case is left out and the other is returned.
C14_Witness ==
    /\ epc = "done"
    /\ Len(children) = 2
    /\ PrimaryIsMedia(children[2])
    /\ url_lower(children[2]) # url_cased(children[2])
    /\ _looks_funny(strip(children[2].title))
    /\ ~children[2].is_gallery
    /\ children[2].post_hint = ""
    /\ Len(cleaned) = 1
    /\ ItemsOf(children[1]) = {1}

\* the candidate text as claimed: the title if it passes the filter, else
\* the first line of the body if that first line passes the filter
claimed_line(d) ==
    LET title == strip(d.title)
        first == strip(first_line(strip(d.selftext)))
    IN IF _looks_funny(title) THEN title
       ELSE IF _looks_funny(first) THEN first
       ELSE <<>>

\* C16 (as claimed): a post that is not media is returned with the candidate
\* text as its line: the title if the title passes the filter, else the first
\* line of the body whenever that first line passes the filter, also when the
\* body as a whole does not; and it is left out when neither passes.
C16_FirstLineFallback ==
    epc = "done" =>
        \A i \in 1..Len(children) :
            LET d == children[i]
            IN ~is_media(d) =>
                   IF claimed_line(d) = <<>> THEN ItemsOf(d) = {}
                   ELSE \E k \in ItemsOf(d) : cleaned[k].line = claimed_line(d)

\* C15: the refresh is a barrier: the cache is written only by a cycle all of
\* whose fetches have settled, and the items it writes are those of all its
\* topics, never of the first to complete alone.
C15_Barrier ==
    [][cache' # cache =>
         \E p \in Callers :
             /\ Resumes(p)
             /\ \A t \in Topics : results[p][t].st \in {"ok", "exc"}
             /\ cache'.items # cache.items => OnePerLine(Yielded(p), cache'.items)]_vars

\* C15 witness: one cycle has committed its items, and of another cycle one
\* fetch has returned items while a fetch is pending; those items are not in
\* the cache.
C15_Witness ==
    /\ cache.ts > 0
    /\ cache.items # FALLBACK_AFFIRMATIONS
    /\ \E p \in Callers :
           /\ pc[p] = "gather"
           /\ \E t \in Topics : results[p][t].st = "pending"
           /\ \E t \in Topics : /\ results[p][t].st = "ok"
                                 /\ results[p][t].items # <<>>
                                 /\ Range(results[p][t].items) \cap Range(cache.items) = {}

\* C17: in every snapshot, the fallback list and every committed list, no two
\* items have lines that are equal under case-insensitive comparison.
C17_UniqueLines ==
    Cardinality({ lower(cache.items[k].line) : k \in 1..Len(cache.items) })
        = Len(cache.items)

\* C17 witness: a committed snapshot holds, of two posts whose lines differ
\* by case only, the one of higher popularity and not the other.
C17_Witness ==
    /\ cache.ts > 0
    /\ \E k \in 1..Len(cache.items) :
           cache.items[k].line = <<"a", "B">> /\ cache.items[k].ups = 50
    /\ \A k \in 1..Len(cache.items) : cache.items[k].line # <<"A", "b">>

\* C18: in every snapshot every item's line is not empty, not made of
\* whitespace only, and at most 250 characters long, whatever the raw posts'
\* titles and bodies.
C18_LinesWellFormed ==
    \A k \in 1..Len(cache.items) :
        LET line == cache.items[k].line
        IN /\ line # <<>>
           /\ \E i \in 1..Len(line) : ~IsSpace(line[i])
           /\ Len(line) <= 250

\* C18 witness: a committed snapshot holds the item of the post with a blank
\* title, its line being the stripped first line of the body, and the item of
\* the post whose title has leading whitespace.
C18_Witness ==
    /\ cache.ts > 0
    /\ \E k \in 1..Len(cache.items) :
           /\ cache.items[k].permalink = BASE \o PostC.permalink
           /\ cache.items[k].line = <<"c">>
    /\ \E k \in 1..Len(cache.items) :
           /\ cache.items[k].permalink = BASE \o PostaB.permalink
           /\ cache.items[k].line = <<"a", "B">>

\* C19 (as claimed): the snapshot's timestamp never decreases, whatever the
\* interleaving of refreshes: a refresh that began earlier never overwrites
\* what a refresh that began later has committed.
C19_StampMonotone ==
    [][cache'.ts >= cache.ts]_vars

\* C20: the merge takes the topics' results in the configured topic order,
\* not in the order in which the fetches completed: whatever that order, a
\* cycle whose fetches all returned commits, for each line, the first item of
\* highest popularity of the lists joined in topic order, so that of items
\* tied across topics the one of the earlier configured topic is kept.
C20_TopicOrderMerge ==
    LET y == Yielded("r1")
    IN ( /\ pc["r1"] = "done"
         /\ \A t \in Topics : results["r1"][t].st = "ok"
         /\ y # <<>> )
       => /\ \A i \in 1..Len(y) : y[Winner(y, i)] \in Range(cache.items)
          /\ \A k \in 1..Len(cache.items) :
                 \E i \in 1..Len(y) : cache.items[k] = y[Winner(y, i)]

\* C20 witness: every topic returned items, the first configured topic's
\* fetch was not the first to complete, two topics returned the same line
\* with the same popularity, and the cycle has committed.
C20_Witness ==
    /\ pc["r1"] = "done"
    /\ Len(order) = NumTopics
    /\ order[1] # 1
    /\ \A t \in Topics : results["r1"][t].st = "ok" /\ results["r1"][t].items # <<>>
    /\ results["r1"][1].items[1].line = results["r1"][order[1]].items[1].line
    /\ results["r1"][1].items[1].ups = results["r1"][order[1]].items[1].ups
    /\ cache.ts = start["r1"]
    /\ \A k \in 1..Len(cache.items) : cache.items[k].subreddit = SUBREDDITS[1]

====
